---- MODULE Spec2Model ----
(***************************************************************************)
(* Model of src/app.py: the Streamlit dashboard that reads tilt (TIS) and  *)
(* secondary (VGS) readings of a device from MySQL through st.cache_data,  *)
(* reshapes them to long format and assigns chart markers.                 *)
(*                                                                         *)
(* Text is modelled as a sequence of code points, so that str.upper(),     *)
(* string concatenation, sorted() and the key pattern are computed.        *)
(* An optional value (None or a value) is <<>> or <<v>>.                   *)
(***************************************************************************)
EXTENDS Integers, Sequences, FiniteSets, TLC

VARIABLES
    secrets,      \* st.secrets: readable flag and the sections it holds
    environ,      \* os.environ after load_dotenv()
    db,           \* the MySQL tables devices, tis, vgs
    now,          \* wall clock, in seconds
    cache,        \* st.cache_data's entries, by (function, arguments)
    open_conns,   \* connections opened by connect() and never close()d
    pc,           \* position of the script run inside main()
    runs,         \* script runs started so far
    device_ids,   \* main(): the (ids, uuids, sensor_ids) triple of this run
    selected,     \* main(): selected device and start date
    tis_df,       \* main(): result of load_data
    vgs_df,       \* main(): result of load_vgs_data
    notices,      \* st.error / st.warning / st.info elements of this run
    queries,      \* statements executed on the database in this run
    outcome,      \* how each fetch of this run ended
    tis_view,     \* the TIS chart and table handed to the page
    vgs_view,     \* the VGS chart and table handed to the page
    trace,        \* the calls made so far with one cache key, oldest first
    db_config     \* the last result of get_db_config()

vars == <<secrets, environ, db, now, cache, open_conns, pc, runs, device_ids,
          selected, tis_df, vgs_df, notices, queries, outcome, tis_view,
          vgs_view, trace, db_config>>

----------------------------------------------------------------------------
(* Bounds of the model.                                                    *)

MaxTicks == 2
MaxInstruments == 6
MaxReadings == 2

----------------------------------------------------------------------------
(* Text.                                                                   *)

\* "_"
Underscore == <<95>>
\* "X"
StrX == <<88>>
\* "Y"
StrY == <<89>>
\* the code points of the column names that end up inside a series key
ColumnText == [value1 |-> <<118, 97, 108, 117, 101, 49>>,
               value2 |-> <<118, 97, 108, 117, 101, 50>>]

IsUpperLetter(c) == c \in 65..90
IsLowerLetter(c) == c \in 97..122
IsDigit(c) == c \in 48..57

\* str.upper() on one ASCII character
upper_identity(c) == c
upper(c) == IF IsLowerLetter(c) THEN c - 32 ELSE c

\* Series.str.upper() on one cell
str_upper(s) == [i \in DOMAIN s |-> upper(s[i])]

\* str < str: Python compares text by code point, a proper prefix first
StrLess(a, b) ==
    \E i \in 1..(Len(a) + 1) :
        /\ i <= Len(b)
        /\ \A j \in 1..(i - 1) : a[j] = b[j]
        /\ (i = Len(a) + 1 \/ a[i] < b[i])

Range(s) == {s[i] : i \in DOMAIN s}

\* Series.unique(): the distinct cells in order of first appearance
RECURSIVE unique(_)
unique(s) ==
    IF s = <<>> THEN <<>>
    ELSE LET front == unique(SubSeq(s, 1, Len(s) - 1))
             last == s[Len(s)]
         IN IF last \in Range(front) THEN front ELSE Append(front, last)

\* sorted(): ascending by StrLess
RECURSIVE Insert(_, _)
Insert(s, x) ==
    IF s = <<>> THEN <<x>>
    ELSE IF StrLess(x, Head(s)) THEN <<x>> \o s
    ELSE <<Head(s)>> \o Insert(Tail(s), x)

RECURSIVE sorted(_)
sorted(s) == IF s = <<>> THEN <<>> ELSE Insert(sorted(Tail(s)), Head(s))

----------------------------------------------------------------------------
(* Marker assignment.                                                      *)

marker_shapes_repeated ==
    <<"circle", "square", "diamond", "triangle-up", "triangle-down",
      "cross", "x", "star", "hexagon", "circle", "hourglass">>
marker_shapes ==
    <<"circle", "square", "diamond", "triangle-up", "triangle-down",
      "cross", "x", "star", "hexagon", "pentagon", "hourglass">>

\* the k-th next() of itertools.cycle(marker_shapes), k = 1, 2, ...
marker_no_wrap(k) ==
    marker_shapes[IF k > Len(marker_shapes) THEN Len(marker_shapes) ELSE k]
get_marker_generator(k) == marker_shapes[((k - 1) % Len(marker_shapes)) + 1]

\* the dict built by "for series_name in unique_series: next(marker_gen)",
\* as the sequence of its (key, symbol) items in insertion order
build_symbol_map(unique_series) ==
    [i \in DOMAIN unique_series |->
        [key |-> unique_series[i], symbol |-> get_marker_generator(i)]]

----------------------------------------------------------------------------
(* Wide to long.                                                           *)

\* DataFrame.melt: one block of rows per value column, in value_vars order
melt(df, label, value_vars) ==
    [k \in 1..(Len(df) * Len(value_vars)) |->
        LET var == value_vars[((k - 1) \div Len(df)) + 1]
            row == df[((k - 1) % Len(df)) + 1]
        IN [DataTime |-> row.DataTime, label |-> label[((k - 1) % Len(df)) + 1],
            variable |-> var, value |-> row[var]]]

\* plot_df["TI"] = plot_df["name"].str.upper()
upper_names(df) == [i \in DOMAIN df |-> str_upper(df[i].name)]

\* long_df["axis"].map({"x_value": "X", "y_value": "Y"})
axis_map == [x_value |-> StrX, y_value |-> StrY]

\* main(), lines 236-246: the long-format TIS frame with its series column
tis_long(df) ==
    LET long_df == melt(df, upper_names(df), <<"x_value", "y_value">>)
    IN [i \in DOMAIN long_df |->
           [DataTime |-> long_df[i].DataTime,
            label |-> long_df[i].label,
            channel |-> axis_map[long_df[i].variable],
            value |-> long_df[i].value,
            series |-> long_df[i].label \o Underscore
                           \o axis_map[long_df[i].variable]]]

\* main(), lines 285-297: the long-format VGS frame with its Series column
vgs_long(df) ==
    LET long_df == melt(df, upper_names(df), <<"value1", "value2">>)
    IN [i \in DOMAIN long_df |->
           [DataTime |-> long_df[i].DataTime,
            label |-> long_df[i].label,
            channel |-> ColumnText[long_df[i].variable],
            value |-> long_df[i].value,
            series |-> long_df[i].label \o Underscore
                           \o ColumnText[long_df[i].variable]]]

series_column(long_df) == [i \in DOMAIN long_df |-> long_df[i].series]

NoView == [shown |-> FALSE, long_df |-> <<>>, unique_series |-> <<>>,
           symbol_map |-> <<>>, table |-> <<>>]

\* what px.line / st.plotly_chart / st.dataframe receive for one block
ChartView(df, long_df) ==
    LET unique_series == sorted(unique(series_column(long_df)))
    IN [shown |-> TRUE, long_df |-> long_df, unique_series |-> unique_series,
        symbol_map |-> build_symbol_map(unique_series), table |-> df]

----------------------------------------------------------------------------
(* Configuration.                                                          *)

SecretKeys == {"host", "user", "password", "database"}
EnvKeys == {"DB_HOST", "DB_USER", "DB_PASSWORD", "DB_NAME"}

EmptyDict == [k \in {} |-> <<>>]

\* dict.get(key) and os.getenv(key): None when the key is missing
dict_get(d, key) == IF key \in DOMAIN d THEN <<d[key]>> ELSE <<>>

\* Python truthiness of an optional text: None and "" are falsy
Truthy(v) == v # <<>> /\ v[1] # ""

\* an st.error / st.warning / st.info element: `by` is the function whose
\* code emits it, `during` the cached call (or main) it is emitted in
Notice(kind, text, by) == [kind |-> kind, text |-> text, by |-> by, during |-> "main"]

During(fn, messages) == [i \in DOMAIN messages |-> [messages[i] EXCEPT !.during = fn]]

\* get_db_config(): the dict it returns and the st.error it may emit.
\* Any exception inside the try block (the secrets store cannot be read, a
\* key of the mysql section is missing) leaves config = {}.
get_db_config ==
    IF ~secrets.readable
    THEN [config |-> EmptyDict,
          messages |-> <<Notice("error", "config_read_error", "get_db_config")>>]
    ELSE IF secrets.mysql # <<>>
    THEN IF SecretKeys \subseteq DOMAIN secrets.mysql[1]
         THEN [config |-> [host |-> <<secrets.mysql[1]["host"]>>,
                           user |-> <<secrets.mysql[1]["user"]>>,
                           password |-> <<secrets.mysql[1]["password"]>>,
                           database |-> <<secrets.mysql[1]["database"]>>,
                           connect_timeout |-> 10],
               messages |-> <<>>]
         ELSE [config |-> EmptyDict,
               messages |->
                   <<Notice("error", "config_read_error", "get_db_config")>>]
    ELSE [config |-> [host |-> dict_get(environ, "DB_HOST"),
                      user |-> dict_get(environ, "DB_USER"),
                      password |-> dict_get(environ, "DB_PASSWORD"),
                      database |-> dict_get(environ, "DB_NAME"),
                      connect_timeout |-> 10],
          messages |-> <<>>]

\* db_config.get("host") of the dict get_db_config() returned
config_host(cfg) ==
    IF "host" \in DOMAIN cfg.config THEN cfg.config["host"] ELSE <<>>

----------------------------------------------------------------------------
(* Database.                                                               *)

\* the driver's behaviour during one call: mysql.connector.connect() raises,
\* cursor.execute() raises, or both succeed
Drivers == {"ok", "connect_error", "query_error"}

\* start_date.strftime('%Y-%m-%d') compared with a DATETIME: midnight of the
\* day, DataTime being counted in hours
date_str(start_date) == start_date * 24

\* every order the server may return `rows` in under ORDER BY DataTime DESC
OrderedDesc(rows) ==
    {s \in [1..Cardinality(rows) -> rows] :
        /\ \A i, j \in DOMAIN s : i # j => s[i] # s[j]
        /\ \A i, j \in DOMAIN s : i < j => s[i].DataTime >= s[j].DataTime}

\* SELECT DataTime, name, x_value, y_value FROM tis
\* WHERE device_id = %s AND DataTime >= %s ORDER BY DataTime DESC
select_tis(device_id, start_date) ==
    OrderedDesc({[DataTime |-> r.DataTime, name |-> r.name,
                  x_value |-> r.x_value, y_value |-> r.y_value] :
                 r \in {q \in db.tis : /\ q.device_id = device_id
                                       /\ q.DataTime >= date_str(start_date)}})

\* SELECT DataTime, name, value1, value2 FROM vgs
\* WHERE device_id = %s AND DataTime >= %s ORDER BY DataTime DESC
select_vgs(device_id, start_date) ==
    OrderedDesc({[DataTime |-> r.DataTime, name |-> r.name,
                  value1 |-> r.value1, value2 |-> r.value2] :
                 r \in {q \in db.vgs : /\ q.device_id = device_id
                                       /\ q.DataTime >= date_str(start_date)}})

\* SELECT DISTINCT id, uuid, sensor_id FROM devices ORDER BY id ASC
select_devices ==
    {s \in [1..Cardinality(db.devices) -> db.devices] :
        \A i, j \in DOMAIN s : i < j => s[i].id < s[j].id}

----------------------------------------------------------------------------
(* The three fetch functions, without their cache decorator.  Each returns *)
(* its value, the st elements it emitted, the statements it executed, the  *)
(* number of connections it left open, and how it ended.                   *)

EmptyFrame == <<>>
EmptyCatalog == <<<<>>, <<>>, <<>>>>

FetchResult(value, messages, queried, leaked, ended) ==
    [value |-> value, messages |-> messages, queried |-> queried,
     leaked |-> leaked, outcome |-> ended]

load_data(device_id, start_date, driver, rows) ==
    LET cfg == get_db_config
    IN IF ~Truthy(config_host(cfg))
       THEN FetchResult(EmptyFrame,
                cfg.messages \o <<Notice("error", "db_settings_not_found", "load_data")>>,
                <<>>, 0, "no_host")
       ELSE IF driver = "connect_error"
       THEN FetchResult(EmptyFrame,
                cfg.messages \o <<Notice("error", "tis_load_error", "load_data")>>,
                <<>>, 0, "connect_failed")
       ELSE IF driver = "query_error"
       THEN FetchResult(EmptyFrame,
                cfg.messages \o <<Notice("error", "tis_load_error", "load_data")>>,
                <<"tis">>, 1, "query_failed")
       ELSE FetchResult(rows, cfg.messages, <<"tis">>, 0, "ok")

load_vgs_data_reporting(device_id, start_date, driver, rows) ==
    LET cfg == get_db_config
    IN IF ~Truthy(config_host(cfg))
       THEN FetchResult(EmptyFrame, cfg.messages, <<>>, 0, "no_host")
       ELSE IF driver = "connect_error"
       THEN FetchResult(EmptyFrame,
                cfg.messages \o <<Notice("error", "vgs_load_error", "load_vgs_data")>>,
                <<>>, 0, "connect_failed")
       ELSE IF driver = "query_error"
       THEN FetchResult(EmptyFrame,
                cfg.messages \o <<Notice("error", "vgs_load_error", "load_vgs_data")>>,
                <<"vgs">>, 1, "query_failed")
       ELSE FetchResult(rows, cfg.messages, <<"vgs">>, 0, "ok")
load_vgs_data(device_id, start_date, driver, rows) ==
    LET cfg == get_db_config
    IN IF ~Truthy(config_host(cfg))
       THEN FetchResult(EmptyFrame, cfg.messages, <<>>, 0, "no_host")
       ELSE IF driver = "connect_error"
       THEN FetchResult(EmptyFrame, cfg.messages, <<>>, 0, "connect_failed")
       ELSE IF driver = "query_error"
       THEN FetchResult(EmptyFrame, cfg.messages, <<"vgs">>, 1, "query_failed")
       ELSE FetchResult(rows, cfg.messages, <<"vgs">>, 0, "ok")

get_device_ids(driver, rows) ==
    LET cfg == get_db_config
    IN IF ~Truthy(config_host(cfg))
       THEN FetchResult(EmptyCatalog, cfg.messages, <<>>, 0, "no_host")
       ELSE IF driver = "connect_error"
       THEN FetchResult(EmptyCatalog,
                cfg.messages \o <<Notice("error", "device_list_error", "get_device_ids")>>,
                <<>>, 0, "connect_failed")
       ELSE IF driver = "query_error"
       THEN FetchResult(EmptyCatalog,
                cfg.messages \o <<Notice("error", "device_list_error", "get_device_ids")>>,
                <<"devices">>, 1, "query_failed")
       ELSE FetchResult(<<[i \in DOMAIN rows |-> rows[i].id],
                          [i \in DOMAIN rows |-> rows[i].uuid],
                          [i \in DOMAIN rows |-> rows[i].sensor_id]>>,
                        cfg.messages, <<"devices">>, 0, "ok")

----------------------------------------------------------------------------
(* st.cache_data.                                                          *)

\* the ttl argument of each decorator; None for the bare @st.cache_data
ttl_of(fn) ==
    CASE fn = "load_data" -> <<60>>
      [] fn = "load_vgs_data" -> <<60>>
      [] fn = "get_device_ids" -> <<>>

CacheKey(fn, args) == <<fn>> \o args

\* an entry can be served while less than its ttl has passed since it was
\* stored; an entry without ttl can always be served
entry_fresh_inclusive(fn, entry) ==
    entry # <<>> /\ (ttl_of(fn) = <<>> \/ now <= entry[1].stored + ttl_of(fn)[1])
entry_fresh_never(fn, entry) ==
    entry # <<>> /\ ttl_of(fn) = <<>>
entry_fresh(fn, entry) ==
    entry # <<>> /\ (ttl_of(fn) = <<>> \/ now < entry[1].stored + ttl_of(fn)[1])

\* whatever the function body returned is stored, an empty result of a
\* failed fetch included
stored_entry_unless_failed(body) ==
    IF body.outcome = "ok"
    THEN <<[value |-> body.value, messages |-> body.messages, stored |-> now]>>
    ELSE <<>>
stored_entry(body) ==
    <<[value |-> body.value, messages |-> body.messages, stored |-> now]>>

\* one call of a decorated function: a fresh entry is returned and the st
\* elements recorded with it are replayed, otherwise the body runs and its
\* result is stored
cached_call(fn, args, body) ==
    LET key == CacheKey(fn, args)
        entry == cache[key]
    IN IF entry_fresh(fn, entry)
       THEN [value |-> entry[1].value, messages |-> During(fn, entry[1].messages),
             ran |-> FALSE, queried |-> <<>>, leaked |-> 0, outcome |-> "hit",
             stored |-> entry[1].stored, cache |-> cache]
       ELSE [value |-> body.value, messages |-> During(fn, body.messages),
             ran |-> TRUE, queried |-> body.queried, leaked |-> body.leaked,
             outcome |-> body.outcome, stored |-> now,
             cache |-> [cache EXCEPT ![key] = stored_entry(body)]]

\* what the trace keeps of one call
CallRecord(r) ==
    [at |-> now, ran |-> r.ran, queried |-> r.queried # <<>>,
     outcome |-> r.outcome, value |-> r.value, stored |-> r.stored]

Traced(fn, args, r) ==
    IF CacheKey(fn, args) = trace.key
    THEN [trace EXCEPT !.calls = Append(@, CallRecord(r))]
    ELSE trace

----------------------------------------------------------------------------
(* Inputs.                                                                 *)

\* instrument names as the tables hold them: a prefix in some letter case,
\* then the instrument's digit: "ti1", "TI1", "ti-1", or "ti1" and "TI1"
\* side by side for the same instrument; "vg01" likewise.
NameStyles == {"lower", "upper", "paired", "dashed"}

InstrumentName(kind, style, i) ==
    LET first == IF kind = "tis" THEN 116 ELSE 118
        second == IF kind = "tis" THEN 105 ELSE 103
        digit == 48 + (IF style = "paired" THEN (i + 1) \div 2 ELSE i)
        tail == IF kind = "tis" THEN <<digit>> ELSE <<48, digit>>
    IN CASE style = "lower" -> <<first, second>> \o tail
         [] style = "upper" -> <<first - 32, second - 32>> \o tail
         [] style = "paired" ->
                IF i % 2 = 1 THEN <<first, second>> \o tail
                ELSE <<first - 32, second - 32>> \o tail
         [] style = "dashed" -> <<first, second, 45>> \o tail

\* `readings` readings of each of n instruments, newest first, and within
\* one timestamp the instruments from the last to the first
TisRows(n, style, readings) ==
    [k \in 1..(n * readings) |->
        LET i == n - ((k - 1) % n)
            t == readings - ((k - 1) \div n)
        IN [DataTime |-> 240 + t, name |-> InstrumentName("tis", style, i),
            x_value |-> 10 * i + t, y_value |-> 20 * i + t]]

VgsRows(n, style, readings) ==
    [k \in 1..(n * readings) |->
        LET i == n - ((k - 1) % n)
            t == readings - ((k - 1) \div n)
        IN [DataTime |-> 240 + t, name |-> InstrumentName("vgs", style, i),
            value1 |-> 10 * i + t, value2 |-> 20 * i + t]]

\* the secret stores and environments get_db_config() is checked on
SecretsUnreadable == [readable |-> FALSE, mysql |-> <<>>]
SecretsWithout == [readable |-> TRUE, mysql |-> <<>>]
SecretsWith(section) == [readable |-> TRUE, mysql |-> <<section>>]

AllSecrets ==
    {SecretsUnreadable, SecretsWithout}
        \cup {SecretsWith(section) :
                section \in UNION {[K -> {"", "secret"}] : K \in SUBSET SecretKeys}}
AllEnvirons == UNION {[K -> {"", "env"}] : K \in SUBSET EnvKeys}

GoodSecrets == SecretsWith([k \in SecretKeys |-> "secret"])
GoodEnviron == [k \in EnvKeys |-> "env"]

\* the stores the dashboard is run with
PipelineSecrets == {GoodSecrets, SecretsUnreadable}

\* the states of the database the dashboard is run against
Device(id, uuid, sensor_id) == [id |-> id, uuid |-> uuid, sensor_id |-> sensor_id]
Reading(device_id, row) ==
    [f \in {"device_id"} \cup DOMAIN row |->
        IF f = "device_id" THEN device_id ELSE row[f]]

TisRow(t, style, i) ==
    [DataTime |-> t, name |-> InstrumentName("tis", style, i),
     x_value |-> 10 * i, y_value |-> 20 * i]
VgsRow(t, style, i) ==
    [DataTime |-> t, name |-> InstrumentName("vgs", style, i),
     value1 |-> 10 * i, value2 |-> 20 * i]

DevicesTable == {Device(1, "uuid-a", "1,2"), Device(2, "uuid-b", "")}
\* device 1 has a reading older than any start date; device 2 has one row
TisEarly ==
    {Reading(1, TisRow(200, "lower", 1)), Reading(1, TisRow(241, "lower", 1)),
     Reading(1, TisRow(242, "lower", 2)), Reading(2, TisRow(241, "upper", 1))}
TisLate == TisEarly \cup {Reading(1, TisRow(243, "lower", 1))}
\* two secondary instruments logged at the same time
VgsLate == {Reading(1, VgsRow(243, "lower", 1)), Reading(1, VgsRow(243, "lower", 2))}

DbEmpty == [devices |-> {}, tis |-> {}, vgs |-> {}]
DbEarly == [devices |-> DevicesTable, tis |-> TisEarly, vgs |-> {}]
DbFull == [devices |-> DevicesTable, tis |-> TisLate, vgs |-> VgsLate]

\* the start dates the user picks in st.sidebar.date_input, as day numbers
StartDates == {10}

----------------------------------------------------------------------------
(* State.                                                                  *)

CacheKeys ==
    {CacheKey("get_device_ids", <<>>)}
        \cup {CacheKey(fn, <<d, s>>) :
                fn \in {"load_data", "load_vgs_data"},
                d \in {r.id : r \in DevicesTable}, s \in StartDates}

NoSelection == [device_id |-> 0, uuid |-> "", sensor_str |-> "", start_date |-> 0]
NoOutcome == [devices |-> "none", tis |-> "none", vgs |-> "none"]
NoConfig == [config |-> EmptyDict, messages |-> <<>>, resolved |-> FALSE]

RunLocalsReset ==
    /\ device_ids = EmptyCatalog
    /\ selected = NoSelection
    /\ notices = <<>>
    /\ queries = <<>>
    /\ outcome = NoOutcome
    /\ tis_view = NoView
    /\ vgs_view = NoView

ProcessStart ==
    /\ now = 0
    /\ cache = [k \in CacheKeys |-> <<>>]
    /\ open_conns = 0
    /\ runs = 0
    /\ db_config = NoConfig
    /\ RunLocalsReset

\* the process has just started and no script run has begun
Init ==
    /\ secrets \in PipelineSecrets
    /\ environ = GoodEnviron
    /\ db \in {DbEmpty, DbEarly}
    /\ pc = "idle"
    /\ tis_df = EmptyFrame
    /\ vgs_df = EmptyFrame
    /\ trace \in {[key |-> k, calls |-> <<>>] : k \in CacheKeys}
    /\ ProcessStart

----------------------------------------------------------------------------
(* main(), one action per stage of a script run.                           *)

\* the clock advances in steps of half the readings' ttl
TickSeconds == ttl_of("load_data")[1] \div 2

Resolved(ran) ==
    IF ran
    THEN [config |-> get_db_config.config, messages |-> get_db_config.messages,
          resolved |-> TRUE]
    ELSE db_config

\* lines 194-198 without the early return
after_catalog_no_return(ids) == "select"
\* lines 196-198: an empty device list ends the run
after_catalog(ids) == IF ids = <<>> THEN "halted" ELSE "select"

\* lines 187-198: a run starts, fetches the device list and stops on an
\* empty one
main_get_device_ids ==
    /\ pc = "idle"
    /\ \E driver \in Drivers, rows \in select_devices :
        LET r == cached_call("get_device_ids", <<>>, get_device_ids(driver, rows))
        IN /\ cache' = r.cache
           /\ open_conns' = open_conns + r.leaked
           /\ trace' = Traced("get_device_ids", <<>>, r)
           /\ db_config' = Resolved(r.ran)
           /\ device_ids' = r.value
           /\ queries' = r.queried
           /\ outcome' = [NoOutcome EXCEPT !.devices = r.outcome]
           /\ notices' =
                IF r.value[1] = <<>>
                THEN r.messages \o <<Notice("warning", "cannot_read_device_list", "main")>>
                ELSE r.messages
           /\ pc' = after_catalog(r.value[1])
    /\ runs' = runs + 1
    /\ selected' = NoSelection
    /\ tis_df' = EmptyFrame
    /\ vgs_df' = EmptyFrame
    /\ tis_view' = NoView
    /\ vgs_view' = NoView
    /\ UNCHANGED <<secrets, environ, db, now>>

\* lines 200-222: the sidebar's device and start date
main_select ==
    /\ pc = "select"
    /\ \E uuid \in Range(device_ids[2]), start_date \in StartDates :
        LET current_index ==
                CHOOSE i \in DOMAIN device_ids[2] :
                    /\ device_ids[2][i] = uuid
                    /\ \A j \in 1..(i - 1) : device_ids[2][j] # uuid
        IN selected' = [device_id |-> device_ids[1][current_index],
                        uuid |-> uuid,
                        sensor_str |-> device_ids[3][current_index],
                        start_date |-> start_date]
    /\ pc' = "load_data"
    /\ UNCHANGED <<secrets, environ, db, now, cache, open_conns, runs,
                   device_ids, tis_df, vgs_df, notices, queries, outcome,
                   tis_view, vgs_view, trace, db_config>>

\* line 226: tis_df = load_data(selected_device_id, start_date)
main_load_data ==
    /\ pc = "load_data"
    /\ \E driver \in Drivers,
          rows \in select_tis(selected.device_id, selected.start_date) :
        LET args == <<selected.device_id, selected.start_date>>
            r == cached_call("load_data", args,
                     load_data(selected.device_id, selected.start_date, driver, rows))
        IN /\ cache' = r.cache
           /\ open_conns' = open_conns + r.leaked
           /\ trace' = Traced("load_data", args, r)
           /\ db_config' = Resolved(r.ran)
           /\ tis_df' = r.value
           /\ queries' = queries \o r.queried
           /\ outcome' = [outcome EXCEPT !.tis = r.outcome]
           /\ notices' = notices \o r.messages
    /\ pc' = "load_vgs_data"
    /\ UNCHANGED <<secrets, environ, db, now, runs, device_ids, selected,
                   vgs_df, tis_view, vgs_view>>

\* line 227: vgs_df = load_vgs_data(selected_device_id, start_date)
main_load_vgs_data ==
    /\ pc = "load_vgs_data"
    /\ \E driver \in Drivers,
          rows \in select_vgs(selected.device_id, selected.start_date) :
        LET args == <<selected.device_id, selected.start_date>>
            r == cached_call("load_vgs_data", args,
                     load_vgs_data(selected.device_id, selected.start_date, driver, rows))
        IN /\ cache' = r.cache
           /\ open_conns' = open_conns + r.leaked
           /\ trace' = Traced("load_vgs_data", args, r)
           /\ db_config' = Resolved(r.ran)
           /\ vgs_df' = r.value
           /\ queries' = queries \o r.queried
           /\ outcome' = [outcome EXCEPT !.vgs = r.outcome]
           /\ notices' = notices \o r.messages
    /\ pc' = "render"
    /\ UNCHANGED <<secrets, environ, db, now, runs, device_ids, selected,
                   tis_df, tis_view, vgs_view>>

\* lines 230-273: the TIS block
render_tis(df) ==
    IF df = EmptyFrame
    THEN [view |-> NoView, messages |-> <<Notice("info", "no_tis_data", "main")>>]
    ELSE [view |-> ChartView(df, tis_long(df)), messages |-> <<>>]

\* lines 281-332: the VGS block
render_vgs(df) ==
    IF df = EmptyFrame
    THEN [view |-> NoView, messages |-> <<Notice("info", "no_vgs_data", "main")>>]
    ELSE [view |-> ChartView(df, vgs_long(df)),
          messages |-> <<Notice("info", "vgs_row_count", "main")>>]

\* lines 229-332: both blocks are rendered and the run ends
main_render ==
    /\ pc = "render"
    /\ tis_view' = render_tis(tis_df).view
    /\ vgs_view' = render_vgs(vgs_df).view
    /\ notices' = notices \o render_tis(tis_df).messages \o render_vgs(vgs_df).messages
    /\ pc' = "done"
    /\ UNCHANGED <<secrets, environ, db, now, cache, open_conns, runs,
                   device_ids, selected, tis_df, vgs_df, queries, outcome,
                   trace, db_config>>

----------------------------------------------------------------------------
(* The environment.  A script run is short against the clock's step and    *)
(* against changes of the tables and of the secrets file, which happen     *)
(* between runs; the interaction that starts the next run comes after the  *)
(* clock has advanced.                                                     *)

\* no script run is under way
BetweenRuns == pc \in {"idle", "halted", "done"}

Tick ==
    /\ BetweenRuns
    /\ now < MaxTicks * TickSeconds
    /\ now' = now + TickSeconds
    /\ pc' = "idle"
    /\ UNCHANGED <<secrets, environ, db, cache, open_conns, runs,
                   device_ids, selected, tis_df, vgs_df, notices, queries,
                   outcome, tis_view, vgs_view, trace, db_config>>

\* the loggers register the devices and insert their readings
DbChange ==
    /\ BetweenRuns
    /\ db # DbFull
    /\ db' = IF db = DbEmpty THEN DbEarly ELSE DbFull
    /\ UNCHANGED <<secrets, environ, now, cache, open_conns, pc, runs,
                   device_ids, selected, tis_df, vgs_df, notices, queries,
                   outcome, tis_view, vgs_view, trace, db_config>>

\* .streamlit/secrets.toml is removed
SecretsChange ==
    /\ BetweenRuns
    /\ secrets = GoodSecrets
    /\ secrets' = SecretsUnreadable
    /\ UNCHANGED <<environ, db, now, cache, open_conns, pc, runs,
                   device_ids, selected, tis_df, vgs_df, notices, queries,
                   outcome, tis_view, vgs_view, trace, db_config>>

Next ==
    \/ main_get_device_ids
    \/ main_select
    \/ main_load_data
    \/ main_load_vgs_data
    \/ main_render
    \/ Tick
    \/ DbChange
    \/ SecretsChange

Spec == Init /\ [][Next]_vars

----------------------------------------------------------------------------
(* get_db_config() alone, on every store and environment.                  *)

InitConfig ==
    /\ secrets \in AllSecrets
    /\ environ \in AllEnvirons
    /\ db = DbEmpty
    /\ pc = "config"
    /\ tis_df = EmptyFrame
    /\ vgs_df = EmptyFrame
    /\ trace = [key |-> CacheKey("get_device_ids", <<>>), calls |-> <<>>]
    /\ ProcessStart

call_get_db_config ==
    /\ pc = "config"
    /\ db_config' = Resolved(TRUE)
    /\ notices' = get_db_config.messages
    /\ pc' = "configured"
    /\ UNCHANGED <<secrets, environ, db, now, cache, open_conns, runs,
                   device_ids, selected, tis_df, vgs_df, queries, outcome,
                   tis_view, vgs_view, trace>>

SpecConfig == InitConfig /\ [][call_get_db_config]_vars

----------------------------------------------------------------------------
(* The render stage alone, on larger frames than the tables above hold:   *)
(* the first run of a process has fetched the device list and the readings *)
(* of device 1 and is about to render them.                                *)

RenderCatalog == <<<<1, 2>>, <<"uuid-a", "uuid-b">>, <<"1,2", "">>>>
RenderArgs == <<1, 10>>
Fetched(value) == <<[value |-> value, messages |-> <<>>, stored |-> 0]>>

InitRender ==
    /\ secrets = GoodSecrets
    /\ environ = GoodEnviron
    /\ pc = "render"
    /\ \E style \in NameStyles, readings \in 1..MaxReadings :
        /\ tis_df \in {TisRows(n, style, readings) : n \in 0..MaxInstruments}
        /\ vgs_df \in {VgsRows(n, style, readings) : n \in 0..MaxInstruments}
    /\ db = [devices |-> DevicesTable,
             tis |-> {Reading(1, tis_df[k]) : k \in DOMAIN tis_df},
             vgs |-> {Reading(1, vgs_df[k]) : k \in DOMAIN vgs_df}]
    /\ cache = [k \in CacheKeys |->
                  CASE k = CacheKey("get_device_ids", <<>>) -> Fetched(RenderCatalog)
                    [] k = CacheKey("load_data", RenderArgs) -> Fetched(tis_df)
                    [] k = CacheKey("load_vgs_data", RenderArgs) -> Fetched(vgs_df)
                    [] OTHER -> <<>>]
    /\ now = 0
    /\ open_conns = 0
    /\ runs = 1
    /\ device_ids = RenderCatalog
    /\ selected = [device_id |-> 1, uuid |-> "uuid-a", sensor_str |-> "1,2",
                   start_date |-> 10]
    /\ notices = <<>>
    /\ queries = <<"devices", "tis", "vgs">>
    /\ outcome = [devices |-> "ok", tis |-> "ok", vgs |-> "ok"]
    /\ tis_view = NoView
    /\ vgs_view = NoView
    /\ trace = [key |-> CacheKey("load_data", RenderArgs),
                calls |-> <<[at |-> 0, ran |-> TRUE, queried |-> TRUE,
                             outcome |-> "ok", value |-> tis_df, stored |-> 0]>>]
    /\ db_config = [config |-> get_db_config.config, messages |-> <<>>,
                    resolved |-> TRUE]

SpecRender == InitRender /\ [][main_render]_vars

----------------------------------------------------------------------------
(* Properties.                                                             *)

Readings == {"load_data", "load_vgs_data"}
Failures == {"no_host", "connect_failed", "query_failed"}

\* the traced key is a reading fetch's, with the ttl of its decorator
TracedReading == trace.key[1] \in Readings
TracedTTL == ttl_of(trace.key[1])[1]
Calls == trace.calls

\* C1 as amended: two calls with the same key of a reading fetch made less
\* than the ttl apart never both run the function body, and they return
\* equal values whenever no call with that key after the first, up to and
\* including the second, ran the body (the entry did not expire in between).
C1_AtMostOneQueryWithinTTL ==
    TracedReading =>
        \A i, j \in DOMAIN Calls :
            (i < j /\ Calls[j].at - Calls[i].at < TracedTTL) =>
                /\ ~(Calls[i].ran /\ Calls[j].ran)
                /\ (\A k \in (i + 1)..j : ~Calls[k].ran) =>
                        Calls[i].value = Calls[j].value

\* C1 as stated: two calls with the same key made less than the ttl apart
\* run the query at most once and both return equal values.
C1_EqualValuesWithinTTL ==
    TracedReading =>
        \A i, j \in DOMAIN Calls :
            (i < j /\ Calls[j].at - Calls[i].at < TracedTTL) =>
                /\ ~(Calls[i].ran /\ Calls[j].ran)
                /\ Calls[i].value = Calls[j].value

\* C1 witness: a call fetched rows and a later call less than the ttl after
\* it was served the same rows from the cache.
C1_Witness ==
    /\ TracedReading
    /\ \E i, j \in DOMAIN Calls :
        /\ i < j
        /\ Calls[j].at - Calls[i].at < TracedTTL
        /\ Calls[i].ran
        /\ Calls[i].value # EmptyFrame
        /\ ~Calls[j].ran
        /\ Calls[j].value = Calls[i].value

\* the last call before call j that ran the body, 0 when there is none
LastRunBefore(j) ==
    IF \E i \in 1..(j - 1) : Calls[i].ran
    THEN CHOOSE i \in 1..(j - 1) :
            Calls[i].ran /\ \A k \in (i + 1)..(j - 1) : ~Calls[k].ran
    ELSE 0

\* C2: a call of a reading fetch made once the ttl has passed since the
\* entry of its key was stored runs the function body again (and with it the
\* query, unless the host is missing or connect() fails), the entry it
\* stores expires a full ttl later, and no call returns a value that was
\* fetched a ttl or more before it.
C2_ExpiredEntryIsRefetched ==
    TracedReading =>
        /\ \A j \in DOMAIN Calls :
            /\ Calls[j].at - Calls[j].stored < TracedTTL
            /\ Calls[j].ran => Calls[j].stored = Calls[j].at
            /\ (LastRunBefore(j) = 0
                  \/ Calls[j].at - Calls[LastRunBefore(j)].at >= TracedTTL) =>
                    /\ Calls[j].ran
                    /\ Calls[j].outcome \in {"ok", "query_failed"} => Calls[j].queried
        /\ (Calls # <<>> /\ Calls[Len(Calls)].ran) =>
                /\ cache[trace.key] # <<>>
                /\ cache[trace.key][1].stored = Calls[Len(Calls)].at
                /\ cache[trace.key][1].value = Calls[Len(Calls)].value

\* C2 witness: a key was fetched, and fetched again with a new query a full
\* ttl later.
C2_Witness ==
    /\ TracedReading
    /\ \E i, j \in DOMAIN Calls :
        /\ i = LastRunBefore(j)
        /\ Calls[j].at - Calls[i].at >= TracedTTL
        /\ Calls[j].ran
        /\ Calls[j].queried
        /\ Calls[j].value # Calls[i].value

\* C9: the empty result of a failed fetch is cached like any other: after a
\* failed get_device_ids no later call runs the body or queries, and all
\* return the empty lists; after a failed reading fetch the calls with the
\* same key less than the ttl later return the empty frame without running
\* the body.
C9_FailedFetchIsCached ==
    \A i, j \in DOMAIN Calls :
        (i < j /\ Calls[i].ran /\ Calls[i].outcome \in Failures) =>
            IF trace.key[1] = "get_device_ids"
            THEN /\ ~Calls[j].ran
                 /\ ~Calls[j].queried
                 /\ Calls[j].value = EmptyCatalog
            ELSE Calls[j].at - Calls[i].at < TracedTTL =>
                    /\ ~Calls[j].ran
                    /\ ~Calls[j].queried
                    /\ Calls[j].value = EmptyFrame

\* C9 witness: a reading fetch failed on the driver, and a call with the
\* same key less than the ttl later got the empty frame from the cache
\* although the table holds rows for it.
C9_Witness ==
    /\ TracedReading
    /\ \E i, j \in DOMAIN Calls :
        /\ i < j
        /\ Calls[i].ran
        /\ Calls[i].outcome \in {"connect_failed", "query_failed"}
        /\ Calls[j].at - Calls[i].at < TracedTTL
        /\ ~Calls[j].ran
        /\ Calls[j].value = EmptyFrame
    /\ secrets = GoodSecrets
    /\ db = DbFull

\* the catalog half of C9 happens too: get_device_ids failed, and more than
\* a reading ttl later it still answers from the cache
C9_CatalogCase ==
    /\ trace.key[1] = "get_device_ids"
    /\ \E i, j \in DOMAIN Calls :
        /\ i < j
        /\ Calls[i].outcome \in Failures
        /\ Calls[j].at - Calls[i].at >= ttl_of("load_data")[1]
        /\ ~Calls[j].ran
    /\ secrets = GoodSecrets
    /\ db = DbFull

ErrorsDuring(fn) ==
    {i \in DOMAIN notices :
        notices[i].during = fn /\ notices[i].kind \in {"error", "warning"}}

\* C3: in a run whose VGS fetch failed on connect() or on the query, vgs_df
\* is empty, the fetch emitted no error, and once the run has rendered, the
\* TIS chart and table are shown whenever tis_df has rows.
C3_SecondaryFailureIsSilent ==
    (pc \in {"render", "done"} /\ outcome.vgs \in {"connect_failed", "query_failed"}) =>
        /\ vgs_df = EmptyFrame
        /\ ErrorsDuring("load_vgs_data") = {}
        /\ (pc = "done" /\ tis_df # EmptyFrame) =>
                /\ tis_view.shown
                /\ tis_view.table = tis_df
                /\ Len(tis_view.long_df) = 2 * Len(tis_df)
                /\ ~vgs_view.shown

\* C3 witness: the tilt fetch returned rows, the VGS query failed, and the
\* run has rendered the TIS block.
C3_Witness ==
    /\ pc = "done"
    /\ outcome.tis = "ok"
    /\ outcome.vgs = "query_failed"
    /\ tis_view.shown
    /\ Len(tis_df) > 1

\* C4: a run that gets an empty device list stops there with the warning:
\* it calls neither load_data nor load_vgs_data, executes no statement after
\* the catalog's, and renders nothing.
C4_EmptyCatalogHaltsRun ==
    (runs > 0 /\ device_ids[1] = <<>>) =>
        /\ pc \in {"halted", "idle"}
        /\ outcome.tis = "none"
        /\ outcome.vgs = "none"
        /\ queries \in {<<>>, <<"devices">>}
        /\ notices # <<>>
        /\ notices[Len(notices)].text = "cannot_read_device_list"
        /\ ~tis_view.shown
        /\ ~vgs_view.shown

\* C4 witness: the catalog query ran, returned no rows, and the run halted.
C4_Witness ==
    /\ pc = "halted"
    /\ outcome.devices = "ok"
    /\ queries = <<"devices">>
    /\ device_ids = EmptyCatalog

\* C10 as stated: no connection is open once a fetch has returned.
C10_NoConnectionLeftOpen == open_conns = 0

----------------------------------------------------------------------------

Symbols(view) == [i \in DOMAIN view.symbol_map |-> view.symbol_map[i].symbol]
Views == {tis_view, vgs_view}

\* C5: in a rendered block with at most as many distinct series keys as the
\* palette has shapes, no two keys get the same symbol (and every series of
\* the frame is a key, once).
C5_SymbolsInjectiveWithinPalette ==
    pc = "done" =>
        \A v \in Views :
            (v.shown /\ Len(v.unique_series) <= Len(marker_shapes)) =>
                /\ \A i, j \in DOMAIN v.symbol_map :
                        i # j =>
                            /\ v.symbol_map[i].key # v.symbol_map[j].key
                            /\ v.symbol_map[i].symbol # v.symbol_map[j].symbol
                /\ {v.symbol_map[i].key : i \in DOMAIN v.symbol_map}
                        = {v.long_df[k].series : k \in DOMAIN v.long_df}

\* C5 witness: a TIS block was rendered with ten distinct series keys.
C5_Witness ==
    /\ pc = "done"
    /\ tis_view.shown
    /\ Len(tis_view.unique_series) = 10
    /\ Len(tis_view.unique_series) <= Len(marker_shapes)

\* C6 as amended: the palette has eleven shapes, so with twelve or more
\* sorted series keys the first eleven get eleven different symbols, the
\* first of them the palette's first, and the 12th key gets the symbol of
\* the 1st; every key gets a symbol.
C6_TwelfthKeyReusesFirstSymbol ==
    pc = "done" =>
        \A v \in Views :
            (v.shown /\ Len(v.unique_series) >= 12) =>
                /\ Len(v.symbol_map) = Len(v.unique_series)
                /\ \A i \in 1..Len(v.unique_series) :
                        v.symbol_map[i].key = v.unique_series[i]
                /\ \A i \in 1..(Len(v.unique_series) - 1) :
                        StrLess(v.unique_series[i], v.unique_series[i + 1])
                /\ Symbols(v)[1] = "circle"
                /\ Symbols(v)[12] = Symbols(v)[1]
                /\ Symbols(v)[11] \notin {Symbols(v)[i] : i \in 1..10}
                /\ Cardinality({Symbols(v)[i] : i \in 1..11}) = 11

\* C6 as stated: with twelve sorted series keys the 11th key has the symbol
\* of the 1st and the 12th the symbol of the 2nd.
C6_EleventhKeyReusesFirstSymbol ==
    pc = "done" =>
        \A v \in Views :
            (v.shown /\ Len(v.unique_series) >= 12) =>
                /\ Symbols(v)[11] = Symbols(v)[1]
                /\ Symbols(v)[12] = Symbols(v)[2]

\* C6 witness: a TIS block was rendered with twelve distinct series keys.
C6_Witness ==
    /\ pc = "done"
    /\ tis_view.shown
    /\ Len(tis_view.unique_series) = 12

IsAlnum(c) == IsUpperLetter(c) \/ IsLowerLetter(c) \/ IsDigit(c)

\* s is t with every lowercase ASCII letter replaced by its capital
IsUppercased(s, t) ==
    /\ Len(s) = Len(t)
    /\ \A p \in DOMAIN s :
        /\ ~IsLowerLetter(s[p])
        /\ \/ s[p] = t[p]
           \/ IsLowerLetter(t[p]) /\ IsUpperLetter(s[p]) /\ s[p] + 32 = t[p]

\* key is label, "_", tag
IsKey(key, label, tag) ==
    /\ Len(key) = Len(label) + 1 + Len(tag)
    /\ SubSeq(key, 1, Len(label)) = label
    /\ key[Len(label) + 1] = 95
    /\ SubSeq(key, Len(label) + 2, Len(key)) = tag

\* ^[A-Z0-9]+_(X|Y)$
MatchesTiltPattern(key) ==
    /\ Len(key) >= 3
    /\ \A p \in 1..(Len(key) - 2) : IsUpperLetter(key[p]) \/ IsDigit(key[p])
    /\ key[Len(key) - 1] = 95
    /\ key[Len(key)] \in {88, 89}

\* the row and the value column a point of a melted frame comes from
RowOf(df, k) == df[((k - 1) % Len(df)) + 1]
ColumnOf(df, k) == ((k - 1) \div Len(df)) + 1

UpperValue1 == <<86, 65, 76, 85, 69, 49>>
UpperValue2 == <<86, 65, 76, 85, 69, 50>>

----------------------------------------------------------------------------

SecretsHost ==
    IF secrets.readable /\ secrets.mysql # <<>>
    THEN dict_get(secrets.mysql[1], "host")
    ELSE <<>>
EnvHost == dict_get(environ, "DB_HOST")

\* C8 as stated: when the secret store does not supply the mysql section
\* (it has none, or cannot be read) the configuration is the environment's
\* DB_* variables, and the host is missing only when neither the store nor
\* the environment holds a non-empty host.
C8_FallsBackToEnvironment ==
    pc = "configured" =>
        /\ (~secrets.readable \/ secrets.mysql = <<>>) =>
                /\ config_host(db_config) = EnvHost
                /\ db_config.messages = <<>>
        /\ ~Truthy(config_host(db_config)) =>
                (~Truthy(SecretsHost) /\ ~Truthy(EnvHost))

====
